---- MODULE Spec2Model ----
(***************************************************************************)
(* A model of request_token/models.py: the RequestToken entity (clean,     *)
(* save, validate_max_uses), the usage ledger written by RequestToken.log  *)
(* (RequestTokenLog, RequestTokenErrorLog) and the store they are kept in. *)
(*                                                                         *)
(* The store is a relational database run at READ COMMITTED, Django's      *)
(* default: a row written inside a transaction carries the writer's name   *)
(* in tx until the transaction commits, and is seen by nobody else before. *)
(* Time is counted in minutes.                                             *)
(***************************************************************************)
EXTENDS Integers, Sequences, FiniteSets, TLC

\* ---------------------------------------------------------------- bounds
NumHolders == 2      \* requests / callers holding a token object in memory
MaxTokens == 1       \* rows of the RequestToken table
MaxLogs == 2         \* RequestTokenLog rows ever inserted
MaxUses == 1         \* largest max_uses a caller asks for
NumUsers == 1        \* rows of the user table
MaxTime == 1         \* minutes the clock runs
MaxHeaderLen == 3    \* characters of a forwarded-for header
MaxRaceLogs == 3     \* RequestTokenLog rows inserted by two racing clients

\* ------------------------------------------------------------- constants
None == -1
LOGIN_MODE_NONE == "None"
LOGIN_MODE_REQUEST == "Request"
LOGIN_MODE_SESSION == "Session"
LOGIN_MODE_CHOICES == {LOGIN_MODE_NONE, LOGIN_MODE_REQUEST, LOGIN_MODE_SESSION}
\* request_token.settings, imported at models.py line 19: the defaults.
JWT_SESSION_TOKEN_EXPIRY == 10
LOG_TOKEN_ERRORS == TRUE

Holders == 1..NumHolders
Users == 1..NumUsers
TokenIds == 1..MaxTokens
NoObj == [id |-> 0]
NoError == "None"
Committed == 0
Anonymous == 0
OtherUser == NumUsers + 1
Principals == Users \cup {OtherUser}
NoRequest == -2

VARIABLES
    now,               \* tz_now()
    tokens,            \* the RequestToken table: a sequence of rows, id = index
    logs,              \* the RequestTokenLog table: a set of rows
    errors,            \* the RequestTokenErrorLog table: a set of rows
    log_seq,           \* the id sequence of the RequestTokenLog table
    obj,               \* obj[h]: the RequestToken object holder h has in memory
    pc,                \* pc[h]: where holder h is
    call,              \* call[h]: the locals of the log() call h is in
    last,              \* the latest call: who made it, what it was, how it ended
    passes,            \* passes[t]: how often validate_max_uses() passed for token t
    overlap,           \* overlap[t]: a request loaded t while another was using it
    request_user,      \* request_user[h]: request.user of the request h is handling
    session,           \* session[h]: the user logged in to the session of h's client
    sent,              \* the token string last handed out to the clients
    request_jwt,       \* request_jwt[h]: the token string the request of h carries
    view_scope,        \* view_scope[h]: the scope of the view the request is routed to
    response,          \* response[h]: the status code of the response to the request
    oplog,             \* oplog[h]: logger.exception calls made for the request
    meta               \* meta[h]: request.META of the request h is handling

\* The HTTP side: what the middleware and the decorator read and write.
web == <<sent, request_jwt, view_scope, response, oplog, meta>>

vars == <<now, tokens, logs, errors, log_seq, obj, pc, call, last, passes, overlap,
          request_user, session, web>>

\* ------------------------------------------------------ the token entity

\* RequestToken(**kwargs): the model's fields with their defaults.
RequestToken(login_mode, user, max_uses, expiration_time) ==
    [id |-> None,
     login_mode |-> login_mode,
     user |-> user,
     scope |-> "foo",
     expiration_time |-> expiration_time,
     not_before_time |-> None,
     data |-> "{}",
     issued_at |-> None,
     max_uses |-> max_uses,
     used_to_date |-> 0]

\* clean(): the key of the ValidationError it raises, NoError when it passes.
clean_user_in_every_mode(t) ==
    IF t.user = None THEN "user"
    ELSE IF t.login_mode = LOGIN_MODE_SESSION /\ t.max_uses # 1 THEN "max_uses"
    ELSE IF t.login_mode = LOGIN_MODE_SESSION /\ t.expiration_time = None
        THEN "expiration_time"
    ELSE NoError
clean_skips_request_mode(t) ==
    IF t.login_mode = LOGIN_MODE_SESSION /\ t.user = None THEN "user"
    ELSE IF t.login_mode = LOGIN_MODE_SESSION /\ t.max_uses # 1 THEN "max_uses"
    ELSE IF t.login_mode = LOGIN_MODE_SESSION /\ t.expiration_time = None
        THEN "expiration_time"
    ELSE NoError
clean(t) ==
    IF t.login_mode = LOGIN_MODE_SESSION /\ t.user = None THEN "user"
    ELSE IF t.login_mode = LOGIN_MODE_SESSION /\ t.max_uses # 1 THEN "max_uses"
    ELSE IF t.login_mode = LOGIN_MODE_SESSION /\ t.expiration_time = None
        THEN "expiration_time"
    ELSE IF t.login_mode = LOGIN_MODE_REQUEST /\ t.user = None
        THEN "expiration_time"
    ELSE NoError

\* save(), first part: what it fills in when update_fields is not given.
AutoFill_from_now(t, has_update_fields) ==
    IF has_update_fields THEN t
    ELSE LET issued == IF t.issued_at # None THEN t.issued_at ELSE now
             t1 == [t EXCEPT !.issued_at = issued]
         IN IF t1.login_mode = LOGIN_MODE_SESSION /\ t1.expiration_time = None
            THEN [t1 EXCEPT !.expiration_time = now + JWT_SESSION_TOKEN_EXPIRY]
            ELSE t1
AutoFill_always_now(t, has_update_fields) ==
    IF has_update_fields THEN t
    ELSE LET t1 == [t EXCEPT !.issued_at = now]
         IN IF t1.login_mode = LOGIN_MODE_SESSION /\ t1.expiration_time = None
            THEN [t1 EXCEPT !.expiration_time = now + JWT_SESSION_TOKEN_EXPIRY]
            ELSE t1
AutoFill(t, has_update_fields) ==
    IF has_update_fields THEN t
    ELSE LET issued == IF t.issued_at # None THEN t.issued_at ELSE now
             t1 == [t EXCEPT !.issued_at = issued]
         IN IF t1.login_mode = LOGIN_MODE_SESSION /\ t1.expiration_time = None
            THEN [t1 EXCEPT !.expiration_time = issued + JWT_SESSION_TOKEN_EXPIRY]
            ELSE t1

\* Model.save(update_fields=fs) on a stored row: only the named columns are written.
UpdateRow(row, t, fs) ==
    [f \in DOMAIN row |-> IF f \in fs THEN t[f] ELSE row[f]]

\* validate_max_uses(): the condition under which it raises MaxUseError.
MaxUsesExceeded_gt(t) == t.used_to_date > t.max_uses
MaxUsesExceeded(t) == t.used_to_date >= t.max_uses

\* save(): the object after the call, how the call ended, and the table after it.
\* update_fields absent: has_update_fields = FALSE.
SaveOutcome_writes_invalid(t, has_update_fields, fs, tbl) ==
    LET t1 == AutoFill(t, has_update_fields)
        key == clean(t1)
        out == IF key # NoError THEN "ValidationError" ELSE "ok"
    IN IF has_update_fields
       THEN IF t1.id = None
            THEN [obj |-> t1, out |-> IF key # NoError THEN out ELSE "ValueError",
                  key |-> key, table |-> tbl]
            ELSE [obj |-> t1, out |-> out, key |-> key,
                  table |-> [tbl EXCEPT ![t1.id] = UpdateRow(@, t1, fs)]]
       ELSE IF t1.id = None
            THEN LET t2 == [t1 EXCEPT !.id = Len(tbl) + 1]
                 IN [obj |-> t2, out |-> out, key |-> key, table |-> Append(tbl, t2)]
            ELSE [obj |-> t1, out |-> out, key |-> key,
                  table |-> [tbl EXCEPT ![t1.id] = t1]]
SaveOutcome(t, has_update_fields, fs, tbl) ==
    LET t1 == AutoFill(t, has_update_fields)
        key == clean(t1)
    IN IF key # NoError
       THEN [obj |-> t1, out |-> "ValidationError", key |-> key, table |-> tbl]
       ELSE IF has_update_fields
       THEN IF t1.id = None
            THEN [obj |-> t1, out |-> "ValueError", key |-> NoError, table |-> tbl]
            ELSE [obj |-> t1, out |-> "ok", key |-> NoError,
                  table |-> [tbl EXCEPT ![t1.id] = UpdateRow(@, t1, fs)]]
       ELSE IF t1.id = None
            THEN LET t2 == [t1 EXCEPT !.id = Len(tbl) + 1]
                 IN [obj |-> t2, out |-> "ok", key |-> NoError,
                     table |-> Append(tbl, t2)]
            ELSE [obj |-> t1, out |-> "ok", key |-> NoError,
                  table |-> [tbl EXCEPT ![t1.id] = t1]]

\* ------------------------------------------------------ the claims codec

\* The characters of a login mode, and str.lower() on a character.
Chars(s) ==
    CASE s = LOGIN_MODE_NONE -> <<"N", "o", "n", "e">>
      [] s = LOGIN_MODE_REQUEST -> <<"R", "e", "q", "u", "e", "s", "t">>
      [] s = LOGIN_MODE_SESSION -> <<"S", "e", "s", "s", "i", "o", "n">>
      [] OTHER -> <<>>
Lower(c) ==
    CASE c = "N" -> "n"
      [] c = "R" -> "r"
      [] c = "S" -> "s"
      [] OTHER -> c

\* self.login_mode[:1].lower()
mod_keeps_case(login_mode) ==
    LET first == SubSeq(Chars(login_mode), 1, 1)
    IN IF first = <<>> THEN "" ELSE first[1]
mod(login_mode) ==
    LET first == SubSeq(Chars(login_mode), 1, 1)
    IN IF first = <<>> THEN "" ELSE Lower(first[1])

\* to_seconds(timestamp): seconds since the epoch; the model counts minutes.
to_seconds(minutes) == minutes * 60

\* RequestToken.claims: the keys of the dict, then the dict.
ClaimNames_with_data(t) ==
    {"max", "sub", "mod", "data"}
        \cup (IF t.id # None THEN {"jti"} ELSE {})
        \cup (IF t.user # None THEN {"aud"} ELSE {})
        \cup (IF t.expiration_time # None THEN {"exp"} ELSE {})
        \cup (IF t.issued_at # None THEN {"iat"} ELSE {})
        \cup (IF t.not_before_time # None THEN {"nbf"} ELSE {})
ClaimNames(t) ==
    {"max", "sub", "mod"}
        \cup (IF t.id # None THEN {"jti"} ELSE {})
        \cup (IF t.user # None THEN {"aud"} ELSE {})
        \cup (IF t.expiration_time # None THEN {"exp"} ELSE {})
        \cup (IF t.issued_at # None THEN {"iat"} ELSE {})
        \cup (IF t.not_before_time # None THEN {"nbf"} ELSE {})

claims_exp_in_minutes(t) ==
    [k \in ClaimNames(t) |->
        CASE k = "max" -> t.max_uses
          [] k = "sub" -> t.scope
          [] k = "mod" -> mod(t.login_mode)
          [] k = "jti" -> t.id
          [] k = "aud" -> t.user
          [] k = "exp" -> t.expiration_time
          [] k = "iat" -> to_seconds(t.issued_at)
          [] k = "nbf" -> to_seconds(t.not_before_time)
          [] k = "data" -> t.data]
claims(t) ==
    [k \in ClaimNames(t) |->
        CASE k = "max" -> t.max_uses
          [] k = "sub" -> t.scope
          [] k = "mod" -> mod(t.login_mode)
          [] k = "jti" -> t.id
          [] k = "aud" -> t.user
          [] k = "exp" -> to_seconds(t.expiration_time)
          [] k = "iat" -> to_seconds(t.issued_at)
          [] k = "nbf" -> to_seconds(t.not_before_time)
          [] k = "data" -> t.data]

\* RequestToken.jwt(): encode(self.claims).decode(), the token string.
\* encode(claims): the claims and a signature over them made with the
\* process-wide key.
SECRET_KEY == "SECRET_KEY"
Sign(payload, key) == [key |-> key, payload |-> payload]
encode(c) == [kind |-> "jwt", payload |-> c, sig |-> Sign(c, SECRET_KEY)]
jwt(t) == encode(claims(t))

\* What a request carries instead of a token string: nothing, or text that is
\* no token string at all ("?rt=foo").
NoJwt == [kind |-> "none"]
Garbage == [kind |-> "garbage"]

\* decode(token) at time t (in minutes): how it ends, and the claims it returns.
decode(s, t) ==
    IF s.kind # "jwt"
    THEN [out |-> "DecodeError", claims |-> <<>>]
    ELSE IF s.sig # Sign(s.payload, SECRET_KEY)
    THEN [out |-> "InvalidSignatureError", claims |-> <<>>]
    ELSE IF "exp" \in DOMAIN s.payload /\ to_seconds(t) >= s.payload["exp"]
    THEN [out |-> "ExpiredSignatureError", claims |-> <<>>]
    ELSE IF "nbf" \in DOMAIN s.payload /\ to_seconds(t) < s.payload["nbf"]
    THEN [out |-> "ImmatureSignatureError", claims |-> <<>>]
    ELSE [out |-> "ok", claims |-> s.payload]

\* ------------------------------------------------------- authentication

\* _auth_is_anonymous(request): request.user and the session's user after the
\* call, and how it ended. login(request, user) stores the user in the session
\* and sets request.user; self.user.backend = ... fails when self.user is None.
auth_is_anonymous_request_logs_in(t, user, sess) ==
    IF t.login_mode \in {LOGIN_MODE_REQUEST, LOGIN_MODE_SESSION}
    THEN IF t.user = None
         THEN [user |-> user, session |-> sess, out |-> "AttributeError"]
         ELSE [user |-> t.user, session |-> t.user, out |-> "ok"]
    ELSE [user |-> user, session |-> sess, out |-> "ok"]
auth_is_anonymous_ignores_mode(t, user, sess) ==
    IF t.login_mode = LOGIN_MODE_SESSION
    THEN IF t.user = None
         THEN [user |-> user, session |-> sess, out |-> "AttributeError"]
         ELSE [user |-> t.user, session |-> t.user, out |-> "ok"]
    ELSE [user |-> t.user, session |-> sess, out |-> "ok"]
auth_is_anonymous_session_for_request(t, user, sess) ==
    IF t.login_mode = LOGIN_MODE_REQUEST
    THEN [user |-> t.user, session |-> sess, out |-> "ok"]
    ELSE IF t.login_mode = LOGIN_MODE_SESSION
    THEN IF t.user = None
         THEN [user |-> user, session |-> sess, out |-> "AttributeError"]
         ELSE [user |-> t.user, session |-> sess, out |-> "ok"]
    ELSE [user |-> user, session |-> sess, out |-> "ok"]
auth_is_anonymous(t, user, sess) ==
    IF t.login_mode = LOGIN_MODE_REQUEST
    THEN [user |-> t.user, session |-> sess, out |-> "ok"]
    ELSE IF t.login_mode = LOGIN_MODE_SESSION
    THEN IF t.user = None
         THEN [user |-> user, session |-> sess, out |-> "AttributeError"]
         ELSE [user |-> t.user, session |-> t.user, out |-> "ok"]
    ELSE [user |-> user, session |-> sess, out |-> "ok"]

\* _auth_is_authenticated(request): how the call ends; it assigns nothing.
auth_is_authenticated_any_user(t, user) == "ok"
auth_is_authenticated(t, user) ==
    IF t.login_mode = LOGIN_MODE_NONE THEN "ok"
    ELSE IF user = t.user THEN "ok"
    ELSE "InvalidAudienceError"

\* The assert statements at the head of _auth_is_anonymous and of
\* _auth_is_authenticated: how they end for request.user.
assert_is_anonymous(user) ==
    IF user = None THEN "AttributeError"
    ELSE IF user = Anonymous THEN "ok" ELSE "AssertionError"
assert_is_authenticated(user) ==
    IF user = None THEN "AttributeError"
    ELSE IF user # Anonymous THEN "ok" ELSE "AssertionError"

\* _auth_is_anonymous(request) and _auth_is_authenticated(request) as called:
\* the assertion, then the body.
checked_auth_is_anonymous(t, user, sess) ==
    IF assert_is_anonymous(user) # "ok"
    THEN [user |-> user, session |-> sess, out |-> assert_is_anonymous(user)]
    ELSE auth_is_anonymous(t, user, sess)
checked_auth_is_authenticated(t, user, sess) ==
    IF assert_is_authenticated(user) # "ok"
    THEN [user |-> user, session |-> sess, out |-> assert_is_authenticated(user)]
    ELSE [user |-> user, session |-> sess, out |-> auth_is_authenticated(t, user)]

\* authenticate(request); request.user.is_anonymous fails when request.user is None.
authenticate_inverted(t, user, sess) ==
    IF user = None
    THEN [user |-> user, session |-> sess, out |-> "AttributeError"]
    ELSE IF user # Anonymous
    THEN checked_auth_is_anonymous(t, user, sess)
    ELSE checked_auth_is_authenticated(t, user, sess)
authenticate(t, user, sess) ==
    IF user = None
    THEN [user |-> user, session |-> sess, out |-> "AttributeError"]
    ELSE IF user = Anonymous
    THEN checked_auth_is_anonymous(t, user, sess)
    ELSE checked_auth_is_authenticated(t, user, sess)

\* ------------------------------------------------ request.META strings

\* A header value: None, or a string as the sequence of its characters.
NoStr == [none |-> TRUE, chars |-> <<>>]
Str(cs) == [none |-> FALSE, chars |-> cs]

\* str.split(',')[0]: the characters before the first comma.
RECURSIVE split_first(_)
split_first(cs) ==
    IF cs = <<>> \/ Head(cs) = "," THEN <<>>
    ELSE <<Head(cs)>> \o split_first(Tail(cs))

\* str.strip(): without the white space at both ends.
RECURSIVE lstrip(_)
lstrip(cs) == IF cs # <<>> /\ Head(cs) = " " THEN lstrip(Tail(cs)) ELSE cs
RECURSIVE rstrip(_)
rstrip(cs) ==
    IF cs # <<>> /\ cs[Len(cs)] = " " THEN rstrip(SubSeq(cs, 1, Len(cs) - 1)) ELSE cs
strip(cs) == lstrip(rstrip(cs))

\* parse_xff(header_value): None.split raises AttributeError, and the
\* function returns None.
parse_xff_no_strip(header_value) ==
    IF header_value.none THEN NoStr
    ELSE Str(split_first(header_value.chars))
parse_xff(header_value) ==
    IF header_value.none THEN NoStr
    ELSE Str(strip(split_first(header_value.chars)))

\* bool(value) of None or a string.
Truthy(v) == ~v.none /\ v.chars # <<>>

\* request.META: the three keys log() reads, None when the key is absent.
META(xff, remote, agent) ==
    [HTTP_X_FORWARDED_FOR |-> xff, REMOTE_ADDR |-> remote, HTTP_USER_AGENT |-> agent]
NoMeta == META(NoStr, NoStr, NoStr)

\* log(), lines 317-318: the user_agent and client_ip of the row.
unknown == Str(<<"u", "n", "k", "n", "o", "w", "n">>)
user_agent(m) == IF m.HTTP_USER_AGENT.none THEN unknown ELSE m.HTTP_USER_AGENT
client_ip(m) ==
    IF Truthy(parse_xff(m.HTTP_X_FORWARDED_FOR))
    THEN parse_xff(m.HTTP_X_FORWARDED_FOR)
    ELSE m.REMOTE_ADDR

\* ------------------------------------------------------ the usage ledger

\* The rows a transaction of holder h sees: the committed ones and its own.
Visible(rows, h) == {r \in rows : r.tx \in {Committed, h}}

\* RequestTokenLog(token=self, ...).save(): the row inserted by holder h.
RequestTokenLog_epoch(id, token, error, h) ==
    [id |-> id,
     token |-> token,
     user |-> None,
     user_agent |-> user_agent(meta[h]),
     client_ip |-> client_ip(meta[h]),
     status_code |-> IF error = NoError THEN 200 ELSE 403,
     timestamp |-> 0,
     tx |-> h]
RequestTokenLog(id, token, error, h) ==
    [id |-> id,
     token |-> token,
     user |-> None,
     user_agent |-> user_agent(meta[h]),
     client_ip |-> client_ip(meta[h]),
     status_code |-> IF error = NoError THEN 200 ELSE 403,
     timestamp |-> now,
     tx |-> h]

\* RequestTokenErrorLog.objects.create_error_log(log, error): the error table
\* after the call. The object is built and returned; save() is not called on it.
create_error_log(errs, log, error, h) == errs

\* self.logs.filter(error__isnull=True).count(), as holder h's transaction sees it.
CountBeforeInsert(ls, es, token, h) ==
    Cardinality({l \in ls : l.token = token /\ l.tx = Committed})
CountDirty(ls, es, token, h) ==
    Cardinality({l \in ls : l.token = token /\ ~ \E e \in es : e.log = l.id})
CountUses(ls, es, token, h) ==
    Cardinality({l \in Visible(ls, h) :
                    /\ l.token = token
                    /\ ~ \E e \in Visible(es, h) : e.log = l.id})

\* transaction.atomic: the rows of holder h on commit and on rollback.
Commit(rows, h) ==
    {IF r.tx = h THEN [r EXCEPT !.tx = Committed] ELSE r : r \in rows}
RollbackKeeps(rows, h) == Commit(rows, h)
Rollback(rows, h) == {r \in rows : r.tx # h}

\* ------------------------------------------------------------------ Init

Init ==
    /\ now = 0
    /\ tokens = <<>>
    /\ logs = {}
    /\ errors = {}
    /\ log_seq = 0
    /\ obj = [h \in Holders |-> NoObj]
    /\ pc = [h \in Holders |-> "idle"]
    /\ call = [h \in Holders |-> [error |-> NoError, log |-> 0]]
    /\ last = [h |-> 0, op |-> "init", out |-> "ok", key |-> NoError]
    /\ passes = [t \in TokenIds |-> 0]
    /\ overlap = [t \in TokenIds |-> FALSE]
    /\ request_user = [h \in Holders |-> NoRequest]
    /\ session = [h \in Holders |-> Anonymous]
    /\ sent = NoJwt
    /\ request_jwt = [h \in Holders |-> NoJwt]
    /\ view_scope = [h \in Holders |-> ""]
    /\ response = [h \in Holders |-> None]
    /\ oplog = [h \in Holders |-> 0]
    /\ meta = [h \in Holders |-> NoMeta]

Result(h, op, out, key) == [h |-> h, op |-> op, out |-> out, key |-> key]

\* --------------------------------------------------------------- actions

\* token = RequestToken(login_mode=..., user=..., max_uses=..., expiration_time=...)
New(h) ==
    /\ pc[h] = "idle"
    /\ \E m \in LOGIN_MODE_CHOICES, u \in {None} \cup Users, n \in 0..MaxUses,
          e \in {None, now + 1} :
          obj' = [obj EXCEPT ![h] = RequestToken(m, u, n, e)]
    /\ last' = Result(h, "new", "ok", NoError)
    /\ UNCHANGED <<now, web, request_user, session, tokens, logs, errors, log_seq, pc, call,
                   passes, overlap>>

\* token = RequestToken(): every field at its default
NewDefault(h) ==
    /\ pc[h] = "idle"
    /\ obj' = [obj EXCEPT ![h] = RequestToken(LOGIN_MODE_NONE, None, 1, None)]
    /\ last' = Result(h, "new", "ok", NoError)
    /\ UNCHANGED <<now, web, request_user, session, tokens, logs, errors, log_seq, pc,
                   call, passes, overlap>>

\* token = RequestToken.objects.get(id=t)
Load(h, t) ==
    /\ pc[h] = "idle"
    /\ t \in 1..Len(tokens)
    /\ obj' = [obj EXCEPT ![h] = tokens[t]]
    /\ last' = Result(h, "load", "ok", NoError)
    /\ UNCHANGED <<now, web, request_user, session, tokens, logs, errors, log_seq, pc, call,
                   passes, overlap>>

\* token.<field> = value, on the object in memory
Assign(h, field, value) ==
    /\ pc[h] = "idle"
    /\ obj[h] # NoObj
    /\ obj[h][field] # value
    /\ obj' = [obj EXCEPT ![h][field] = value]
    /\ last' = Result(h, "assign", "ok", NoError)
    /\ UNCHANGED <<now, web, request_user, session, tokens, logs, errors, log_seq, pc, call,
                   passes, overlap>>

SetLoginMode(h) == \E m \in LOGIN_MODE_CHOICES : Assign(h, "login_mode", m)
SetUser(h) == \E u \in {None} \cup Users : Assign(h, "user", u)
SetMaxUses(h) == \E n \in 0..MaxUses : Assign(h, "max_uses", n)
SetExpirationTime(h) == \E e \in {None, now + 1} : Assign(h, "expiration_time", e)
SetIssuedAt(h) == \E i \in {None} \cup 0..now : Assign(h, "issued_at", i)

\* A minute passes.
Tick ==
    /\ now < MaxTime
    /\ now' = now + 1
    /\ UNCHANGED <<tokens, logs, errors, log_seq, obj, pc, call, last, passes,
                   overlap, request_user, session, web>>

\* token.clean()
Clean(h) ==
    /\ pc[h] = "idle"
    /\ obj[h] # NoObj
    /\ LET key == clean(obj[h])
       IN last' = Result(h, "clean",
                         IF key = NoError THEN "ok" ELSE "ValidationError", key)
    /\ UNCHANGED <<now, web, request_user, session, tokens, logs, errors, log_seq, obj, pc,
                   call, passes, overlap>>

UpdateFieldChoices == {{"issued_at"}, {"login_mode"}, {"max_uses", "used_to_date"}}

\* token.save() (has_update_fields = FALSE) and token.save(update_fields=fs)
SaveWith(h, has_update_fields, fs) ==
    /\ pc[h] = "idle"
    /\ obj[h] # NoObj
    /\ LET r == SaveOutcome(obj[h], has_update_fields, fs, tokens)
       IN /\ Len(r.table) <= MaxTokens
          /\ obj' = [obj EXCEPT ![h] = r.obj]
          /\ tokens' = r.table
          /\ last' = Result(h, "save", r.out, r.key)
    /\ UNCHANGED <<now, web, request_user, session, logs, errors, log_seq, pc, call, passes,
                   overlap>>

Save(h) ==
    \E has_update_fields \in BOOLEAN, fs \in UpdateFieldChoices :
       /\ ~has_update_fields => fs = {"issued_at"}
       /\ SaveWith(h, has_update_fields, fs)

\* token.validate_max_uses(); where the caller goes next is the caller's business.
validate_max_uses(h) ==
    /\ obj[h] # NoObj
    /\ last' = Result(h, "validate_max_uses",
                      IF MaxUsesExceeded(obj[h]) THEN "MaxUseError" ELSE "ok",
                      NoError)
    /\ UNCHANGED <<now, web, request_user, session, tokens, logs, errors, log_seq, obj, call>>

\* log(), lines 314-322: the RequestTokenLog row is inserted inside the
\* transaction, then the error log is built when an error was given.
LogInsertUpTo(h, error, cap) ==
    /\ obj[h] # NoObj
    /\ log_seq < cap
    /\ IF obj[h].id = None
       THEN \* the token has no row: the insert raises, the transaction rolls back
            /\ last' = Result(h, "log", "ValueError", NoError)
            /\ pc' = [pc EXCEPT ![h] = "idle"]
            /\ UNCHANGED <<logs, errors, log_seq, call>>
       ELSE /\ log_seq' = log_seq + 1
            /\ logs' = logs \cup {RequestTokenLog(log_seq + 1, obj[h].id, error, h)}
            /\ errors' = IF error # NoError /\ LOG_TOKEN_ERRORS
                         THEN create_error_log(errors, log_seq + 1, error, h)
                         ELSE errors
            /\ call' = [call EXCEPT ![h] = [error |-> error, log |-> log_seq + 1]]
            /\ pc' = [pc EXCEPT ![h] = "log_inserted"]
            /\ last' = Result(h, "log", "inserted", NoError)
    /\ UNCHANGED <<now, web, request_user, session, tokens, obj, passes, overlap>>

LogInsert(h, error) == LogInsertUpTo(h, error, MaxLogs)

\* log(), line 326: used_to_date is counted from the ledger.
LogCount(h) ==
    /\ pc[h] = "log_inserted"
    /\ obj' = [obj EXCEPT ![h].used_to_date = CountUses(logs, errors, obj[h].id, h)]
    /\ pc' = [pc EXCEPT ![h] = "log_counted"]
    /\ last' = Result(h, "log", "counted", NoError)
    /\ UNCHANGED <<now, web, request_user, session, tokens, logs, errors, log_seq, call, passes,
                   overlap>>

\* log(), lines 327-328: self.save(), then the transaction commits; when save()
\* raises, the transaction is rolled back and the error reaches the caller.
\* request_ends: the caller is a request, which ends here and drops its object.
LogSave(h, request_ends) ==
    /\ pc[h] = "log_counted"
    /\ LET r == SaveOutcome(obj[h], FALSE, {}, tokens)
       IN /\ obj' = [obj EXCEPT ![h] = IF request_ends THEN NoObj ELSE r.obj]
          /\ last' = Result(h, "log", r.out, r.key)
          /\ IF r.out = "ok"
             THEN /\ tokens' = r.table
                  /\ logs' = Commit(logs, h)
                  /\ errors' = Commit(errors, h)
             ELSE /\ tokens' = tokens
                  /\ logs' = Rollback(logs, h)
                  /\ errors' = Rollback(errors, h)
    /\ pc' = [pc EXCEPT ![h] = "idle"]
    /\ call' = [call EXCEPT ![h] = [error |-> NoError, log |-> 0]]
    /\ UNCHANGED <<now, web, request_user, session, log_seq, passes, overlap>>


\* A user logs in to the client's session by the site's own login view.
Login(h) ==
    /\ pc[h] = "idle"
    /\ request_user[h] = NoRequest
    /\ session[h] = Anonymous
    /\ \E u \in Principals : session' = [session EXCEPT ![h] = u]
    /\ last' = Result(h, "login", "ok", NoError)
    /\ UNCHANGED <<now, web, tokens, logs, errors, log_seq, obj, pc, call, passes,
                   overlap, request_user>>

\* A request of the client arrives: request.user is the user of its session.
BeginRequest(h) ==
    /\ pc[h] = "idle"
    /\ request_user[h] = NoRequest
    /\ request_user' = [request_user EXCEPT ![h] = session[h]]
    /\ last' = Result(h, "begin", "ok", NoError)
    /\ UNCHANGED <<now, web, tokens, logs, errors, log_seq, obj, pc, call, passes,
                   overlap, session>>

\* The response is sent: the request object is gone, the session stays.
EndRequest(h) ==
    /\ pc[h] = "idle"
    /\ request_user[h] # NoRequest
    /\ request_user' = [request_user EXCEPT ![h] = NoRequest]
    /\ last' = Result(h, "end", "ok", NoError)
    /\ UNCHANGED <<now, web, tokens, logs, errors, log_seq, obj, pc, call, passes,
                   overlap, session>>

\* token.authenticate(request); where the caller goes next is the caller's business.
call_authenticate(h) ==
    /\ obj[h] # NoObj
    /\ request_user[h] # NoRequest
    /\ LET r == authenticate(obj[h], request_user[h], session[h])
       IN /\ request_user' = [request_user EXCEPT ![h] = r.user]
          /\ session' = [session EXCEPT ![h] = r.session]
          /\ last' = Result(h, "authenticate", r.out, NoError)
    /\ UNCHANGED <<now, web, tokens, logs, errors, log_seq, obj, call>>

\* token.authenticate(request) called directly.
Authenticate(h) ==
    /\ pc[h] = "idle"
    /\ call_authenticate(h)
    /\ UNCHANGED <<pc, passes, overlap>>

\* token._auth_is_anonymous(request) and token._auth_is_authenticated(request)
\* called directly, whatever the request's user is.
AuthIsAnonymous(h) ==
    /\ pc[h] = "idle"
    /\ obj[h] # NoObj
    /\ request_user[h] # NoRequest
    /\ LET r == checked_auth_is_anonymous(obj[h], request_user[h], session[h])
       IN /\ request_user' = [request_user EXCEPT ![h] = r.user]
          /\ session' = [session EXCEPT ![h] = r.session]
          /\ last' = Result(h, "_auth_is_anonymous", r.out, NoError)
    /\ UNCHANGED <<now, web, tokens, logs, errors, log_seq, obj, pc, call, passes,
                   overlap>>

AuthIsAuthenticated(h) ==
    /\ pc[h] = "idle"
    /\ obj[h] # NoObj
    /\ request_user[h] # NoRequest
    /\ LET r == checked_auth_is_authenticated(obj[h], request_user[h], session[h])
       IN /\ request_user' = [request_user EXCEPT ![h] = r.user]
          /\ session' = [session EXCEPT ![h] = r.session]
          /\ last' = Result(h, "_auth_is_authenticated", r.out, NoError)
    /\ UNCHANGED <<now, web, tokens, logs, errors, log_seq, obj, pc, call, passes,
                   overlap>>

\* ------------------------------------------- a request that uses a token

\* The requests that hold a token and have not yet written their log row.
NotYetLogged == {q \in Holders : pc[q] \in {"loaded", "valid", "rejected"}}

\* RequestToken.objects.create_token(scope, **kwargs): RequestToken(...).save()
create_token ==
    /\ Len(tokens) < MaxTokens
    /\ \E m \in LOGIN_MODE_CHOICES, u \in {None} \cup Users, n \in 0..MaxUses :
          LET r == SaveOutcome(RequestToken(m, u, n, None), FALSE, {}, tokens)
          IN /\ tokens' = r.table
             /\ last' = Result(0, "create_token", r.out, r.key)
    /\ UNCHANGED <<now, web, request_user, session, logs, errors, log_seq, obj, pc, call,
                   passes, overlap>>

\* A request arrives with the token string of token t: the token is loaded.
UseLoadUpTo(r, t, cap) ==
    /\ pc[r] = "idle"
    /\ t \in 1..Len(tokens)
    /\ log_seq + Cardinality(NotYetLogged) < cap
    /\ obj' = [obj EXCEPT ![r] = tokens[t]]
    /\ pc' = [pc EXCEPT ![r] = "loaded"]
    /\ overlap' = [overlap EXCEPT ![t] =
                      @ \/ \E q \in Holders \ {r} : pc[q] # "idle" /\ obj[q].id = t]
    /\ last' = Result(r, "load", "ok", NoError)
    /\ UNCHANGED <<now, web, request_user, session, tokens, logs, errors, log_seq, call, passes>>

UseLoad(r, t) == UseLoadUpTo(r, t, MaxLogs)

\* The request checks the use count of the token it holds.
UseValidate(r) ==
    /\ pc[r] = "loaded"
    /\ validate_max_uses(r)
    /\ pc' = [pc EXCEPT ![r] = IF MaxUsesExceeded(obj[r]) THEN "rejected" ELSE "valid"]
    /\ passes' = IF MaxUsesExceeded(obj[r]) THEN passes
                 ELSE [passes EXCEPT ![obj[r].id] = @ + 1]
    /\ UNCHANGED overlap

\* The same token object is used once more, right after its own log() returned.
UseAgain(r) ==
    /\ pc[r] = "idle"
    /\ last.h = r /\ last.op = "log" /\ last.out = "ok"
    /\ log_seq + Cardinality(NotYetLogged) < MaxLogs
    /\ validate_max_uses(r)
    /\ pc' = [pc EXCEPT ![r] = IF MaxUsesExceeded(obj[r]) THEN "rejected" ELSE "valid"]
    /\ passes' = IF MaxUsesExceeded(obj[r]) THEN passes
                 ELSE [passes EXCEPT ![obj[r].id] = @ + 1]
    /\ UNCHANGED overlap

\* The use is recorded: token.log(request, response) after the view ran,
\* token.log(request, response, error) when validate_max_uses() raised.
UseLogUpTo(r, cap) ==
    \/ /\ pc[r] = "valid"
       /\ LogInsertUpTo(r, NoError, cap)
    \/ /\ pc[r] = "rejected"
       /\ LogInsertUpTo(r, "MaxUseError", cap)
UseLog(r) == UseLogUpTo(r, MaxLogs)

\* No other request is under way.
Sole(r) == \A q \in Holders \ {r} : pc[q] = "idle"

\* The requests of the protocol below that hold a token and have not yet
\* written their log row.
Unlogged ==
    {q \in Holders :
        pc[q] \in {"loaded", "valid", "rejected", "authenticated", "refused"}}

\* A request that carries the token string of token t: the token is loaded.
RequestLoad(r, t) ==
    /\ request_user[r] # NoRequest
    /\ log_seq + Cardinality(Unlogged) < MaxLogs
    /\ UseLoad(r, t)

\* After validate_max_uses() passed the request calls token.authenticate(request).
RequestAuthenticate(r) ==
    /\ pc[r] = "valid"
    /\ call_authenticate(r)
    /\ pc' = [pc EXCEPT ![r] =
                 IF authenticate(obj[r], request_user[r], session[r]).out = "ok"
                 THEN "authenticated" ELSE "refused"]
    /\ UNCHANGED <<passes, overlap>>

\* The use is recorded: token.log(request, response) after the view ran,
\* token.log(request, response, error) with the error that was raised.
RequestLog(r) ==
    \/ /\ pc[r] = "authenticated"
       /\ LogInsert(r, NoError)
    \/ /\ pc[r] = "rejected"
       /\ LogInsert(r, "MaxUseError")
    \/ /\ pc[r] = "refused"
       /\ LogInsert(r, last.out)

\* ------------------------------------- requests through the middleware

\* The scopes views are decorated with; the payloads callers store.
Scopes == {"foo", "bar"}
Payloads == {"{}", "{'foo': True}"}

SetScope(h) == \E sc \in Scopes : Assign(h, "scope", sc)
SetNotBeforeTime(h) == \E n \in {None, now + 1} : Assign(h, "not_before_time", n)
SetData(h) == \E d \in Payloads : Assign(h, "data", d)

\* token = RequestToken(expiration_time=..., not_before_time=...), when
\* nothing is stored yet.
NewWindow(h) ==
    /\ pc[h] = "idle"
    /\ tokens = <<>>
    /\ \E e \in {None, now + 1}, n \in {None, now + 1} :
          obj' = [obj EXCEPT ![h] =
                     [RequestToken(LOGIN_MODE_NONE, None, 1, e)
                         EXCEPT !.not_before_time = n]]
    /\ last' = Result(h, "new", "ok", NoError)
    /\ UNCHANGED <<now, web, request_user, session, tokens, logs, errors, log_seq, pc,
                   call, passes, overlap>>

\* A caller sends out a link that carries token.jwt().
SendJwt(h) ==
    /\ pc[h] = "idle"
    /\ obj[h] # NoObj
    /\ sent' = jwt(obj[h])
    /\ last' = Result(h, "jwt", "ok", NoError)
    /\ UNCHANGED <<now, tokens, logs, errors, log_seq, obj, pc, call, passes, overlap,
                   request_user, session, request_jwt, view_scope, response, oplog,
                   meta>>

\* token.expire(): expiration_time becomes the current time or earlier, and
\* the token is saved.
expire(h) ==
    /\ pc[h] = "idle"
    /\ obj[h] # NoObj
    /\ \E e \in {x \in {now - 1, now} : x >= 0} :
          LET r == SaveOutcome([obj[h] EXCEPT !.expiration_time = e], FALSE, {}, tokens)
          IN /\ Len(r.table) <= MaxTokens
             /\ obj' = [obj EXCEPT ![h] = r.obj]
             /\ tokens' = r.table
             /\ last' = Result(h, "expire", r.out, r.key)
    /\ UNCHANGED <<now, web, request_user, session, logs, errors, log_seq, pc, call,
                   passes, overlap>>

\* token.delete(), while no request holds the token: the row goes, and the
\* rows of the ledger that refer to it go with it; the object keeps its
\* fields and loses its id.
Delete(h) ==
    /\ pc[h] = "idle"
    /\ obj[h] # NoObj
    /\ obj[h].id # None
    /\ tokens[obj[h].id] # NoObj
    /\ \A q \in Holders \ {h} : obj[q] = NoObj \/ obj[q].id # obj[h].id
    /\ tokens' = [tokens EXCEPT ![obj[h].id] = NoObj]
    /\ logs' = {l \in logs : l.token # obj[h].id}
    /\ errors' = {e \in errors : e.token # obj[h].id}
    /\ obj' = [obj EXCEPT ![h].id = None]
    /\ last' = Result(h, "delete", "ok", NoError)
    /\ UNCHANGED <<now, web, request_user, session, log_seq, pc, call, passes,
                   overlap>>

\* What a client can make of the token string it was sent without the key:
\* the same claims with another scope, under the signature it has.
Forged(s) ==
    IF s.kind # "jwt" THEN {}
    ELSE {[s EXCEPT !.payload = [@ EXCEPT !["sub"] = sc]] :
             sc \in Scopes \ {s.payload["sub"]}}

\* A request of client h arrives for a view decorated with some scope; it
\* carries no token string, the string sent out, a forgery of it, or text
\* that is no token string.
WebRequestWith(h, strings) ==
    /\ pc[h] = "idle"
    /\ request_user[h] = NoRequest
    /\ obj[h] = NoObj
    /\ log_seq < MaxLogs
    /\ request_user' = [request_user EXCEPT ![h] = session[h]]
    /\ \E s \in strings : request_jwt' = [request_jwt EXCEPT ![h] = s]
    /\ \E sc \in Scopes : view_scope' = [view_scope EXCEPT ![h] = sc]
    /\ response' = [response EXCEPT ![h] = None]
    /\ oplog' = [oplog EXCEPT ![h] = 0]
    /\ pc' = [pc EXCEPT ![h] = "received"]
    /\ last' = Result(h, "request", "ok", NoError)
    /\ UNCHANGED <<now, tokens, logs, errors, log_seq, obj, call, passes, overlap,
                   session, sent, meta>>

WebRequest(h) == WebRequestWith(h, {NoJwt, Garbage, sent} \cup Forged(sent))

\* A request of a client who follows the link it was sent.
LinkRequest(h) == sent # NoJwt /\ WebRequestWith(h, {sent})

\* RequestTokenMiddleware on token string s at minute m with token table tbl:
\* the string is decoded and the token it names is loaded into request.token;
\* when either fails request.token is None and logger.exception is called.
process_request_quiet(s, m, tbl) ==
    LET d == decode(s, m)
        found == /\ d.out = "ok"
                 /\ "jti" \in DOMAIN d.claims
                 /\ d.claims["jti"] \in 1..Len(tbl)
                 /\ tbl[d.claims["jti"]] # NoObj
    IN IF s = NoJwt
       THEN [token |-> NoObj, out |-> "no token", logged |-> 0]
       ELSE IF found
       THEN [token |-> tbl[d.claims["jti"]], out |-> "ok", logged |-> 0]
       ELSE [token |-> NoObj,
             out |-> IF d.out # "ok" THEN d.out
                     ELSE IF "jti" \in DOMAIN d.claims THEN "DoesNotExist"
                     ELSE "MissingRequiredClaimError",
             logged |-> IF d.out # "ok" THEN 1 ELSE 0]
process_request(s, m, tbl) ==
    LET d == decode(s, m)
        found == /\ d.out = "ok"
                 /\ "jti" \in DOMAIN d.claims
                 /\ d.claims["jti"] \in 1..Len(tbl)
                 /\ tbl[d.claims["jti"]] # NoObj
    IN IF s = NoJwt
       THEN [token |-> NoObj, out |-> "no token", logged |-> 0]
       ELSE IF found
       THEN [token |-> tbl[d.claims["jti"]], out |-> "ok", logged |-> 0]
       ELSE [token |-> NoObj,
             out |-> IF d.out # "ok" THEN d.out
                     ELSE IF "jti" \in DOMAIN d.claims THEN "DoesNotExist"
                     ELSE "MissingRequiredClaimError",
             logged |-> 1]

Middleware(h) ==
    /\ pc[h] = "received"
    /\ LET r == process_request(request_jwt[h], now, tokens)
       IN /\ obj' = [obj EXCEPT ![h] = r.token]
          /\ oplog' = [oplog EXCEPT ![h] = @ + r.logged]
          /\ pc' = [pc EXCEPT ![h] = IF r.out = "ok" THEN "tokened" ELSE "untokened"]
          /\ last' = Result(h, "middleware", r.out, NoError)
    /\ UNCHANGED <<now, tokens, logs, errors, log_seq, call, passes, overlap,
                   request_user, session, sent, request_jwt, view_scope, response,
                   meta>>

\* The scope check of the decorator, given the token loaded, the claims of the
\* token string and the scope of the view: the token's scope is compared.
ScopeMismatch_sub(t, c, scope) == c["sub"] # scope
ScopeMismatch(t, c, scope) == t.scope # scope

\* @use_request_token(scope, required): without a token the view runs
\* undecorated unless the token is required; with a token its scope must be
\* the scope of the view.
Decorator(h) ==
    /\ \/ /\ pc[h] = "untokened"
          /\ \E required \in BOOLEAN :
                /\ pc' = [pc EXCEPT ![h] = IF required THEN "not_found" ELSE "plain"]
                /\ last' = Result(h, "use_request_token",
                                  IF required THEN "TokenNotFoundError" ELSE "ok",
                                  NoError)
       \/ /\ pc[h] = "tokened"
          /\ LET mismatch == ScopeMismatch(obj[h], request_jwt[h].payload,
                                           view_scope[h])
             IN /\ pc' = [pc EXCEPT ![h] = IF mismatch THEN "scope_error" ELSE "loaded"]
                /\ last' = Result(h, "use_request_token",
                                  IF mismatch THEN "ScopeError" ELSE "ok", NoError)
    /\ UNCHANGED <<now, web, request_user, session, tokens, logs, errors, log_seq, obj,
                   call, passes, overlap>>

\* The decorator calls token.validate_max_uses().
WebValidate(h) ==
    /\ pc[h] = "loaded"
    /\ validate_max_uses(h)
    /\ pc' = [pc EXCEPT ![h] = IF MaxUsesExceeded(obj[h]) THEN "rejected" ELSE "valid"]
    /\ UNCHANGED <<passes, overlap>>

\* The view function runs: it returns a response, or raises an exception that
\* has nothing to do with tokens.
View(h) ==
    /\ pc[h] \in {"authenticated", "plain"}
    /\ \E raises \in BOOLEAN :
          /\ response' = [response EXCEPT ![h] = IF raises THEN @ ELSE 200]
          /\ pc' = [pc EXCEPT ![h] = IF raises THEN "view_error" ELSE "viewed"]
          /\ last' = Result(h, "view", IF raises THEN "Exception" ELSE "ok", NoError)
    /\ UNCHANGED <<now, tokens, logs, errors, log_seq, obj, call, passes, overlap,
                   request_user, session, sent, request_jwt, view_scope, oplog,
                   meta>>

\* The exception the request has raised and nobody has handled yet.
Raised(h) ==
    CASE pc[h] = "not_found" -> "TokenNotFoundError"
      [] pc[h] = "scope_error" -> "ScopeError"
      [] pc[h] = "rejected" -> "MaxUseError"
      [] pc[h] = "refused" -> authenticate(obj[h], request_user[h], session[h]).out
      [] pc[h] = "view_error" -> "Exception"
      [] OTHER -> NoError

\* The subclasses of InvalidTokenError.
TokenErrors_any_exception ==
    {"TokenNotFoundError", "ScopeError", "MaxUseError", "InvalidAudienceError",
     "Exception"}
TokenErrors ==
    {"TokenNotFoundError", "ScopeError", "MaxUseError", "InvalidAudienceError"}

\* RequestTokenMiddleware.process_exception: a token error becomes a 403
\* response, any other exception is left alone.
ProcessException(h) ==
    /\ Raised(h) # NoError
    /\ response[h] = None
    /\ IF Raised(h) \in TokenErrors
       THEN /\ response' = [response EXCEPT ![h] = 403]
            /\ pc' = pc
            /\ last' = Result(h, "process_exception", "403", NoError)
       ELSE /\ response' = response
            /\ pc' = [pc EXCEPT ![h] = "unhandled"]
            /\ last' = Result(h, "process_exception", "None", NoError)
    /\ UNCHANGED <<now, tokens, logs, errors, log_seq, obj, call, passes, overlap,
                   request_user, session, sent, request_jwt, view_scope, oplog,
                   meta>>

\* token.log(request, response) after the view returned, and
\* token.log(request, response, error=exception) in process_exception.
WebLog(h) ==
    /\ obj[h] # NoObj
    /\ \/ /\ pc[h] = "viewed"
          /\ LogInsert(h, NoError)
       \/ /\ Raised(h) \in TokenErrors
          /\ response[h] = 403
          /\ LogInsert(h, Raised(h))

\* The response is sent and the request is over.
WebEnd(h) ==
    /\ request_user[h] # NoRequest
    /\ \/ pc[h] = "idle"
       \/ pc[h] = "unhandled"
       \/ pc[h] = "viewed" /\ obj[h] = NoObj
       \/ Raised(h) \in TokenErrors /\ response[h] = 403 /\ obj[h] = NoObj
    /\ pc' = [pc EXCEPT ![h] = "idle"]
    /\ obj' = [obj EXCEPT ![h] = NoObj]
    /\ request_user' = [request_user EXCEPT ![h] = NoRequest]
    /\ request_jwt' = [request_jwt EXCEPT ![h] = NoJwt]
    /\ view_scope' = [view_scope EXCEPT ![h] = ""]
    /\ response' = [response EXCEPT ![h] = None]
    /\ oplog' = [oplog EXCEPT ![h] = 0]
    /\ last' = Result(h, "end", "ok", NoError)
    /\ UNCHANGED <<now, tokens, logs, errors, log_seq, call, passes, overlap, session,
                   sent, meta>>

\* The header values requests arrive with: forwarded-for headers of entries,
\* blanks and commas, a remote address, a user agent; each may be absent.
HeaderChars == {"f", " ", ","}
ForwardedFor ==
    {NoStr} \cup {Str(cs) : cs \in UNION {[1..n -> HeaderChars] : n \in 0..MaxHeaderLen}}
RemoteAddrs == {NoStr, Str(<<"r">>)}
UserAgents == {NoStr, Str(<<>>), Str(<<"a">>)}

\* The request whose use of the token is about to be logged arrives with its
\* META.
MetaRequest(h) ==
    /\ pc[h] = "idle"
    /\ log_seq = 0
    /\ meta[h] = NoMeta
    /\ \E xff \in ForwardedFor, remote \in RemoteAddrs, agent \in UserAgents :
          meta' = [meta EXCEPT ![h] = META(xff, remote, agent)]
    /\ last' = Result(h, "request", "ok", NoError)
    /\ UNCHANGED <<now, tokens, logs, errors, log_seq, obj, pc, call, passes, overlap,
                   request_user, session, sent, request_jwt, view_scope, response,
                   oplog>>

\* ------------------------------------------------------- specifications

\* Requests using tokens concurrently.
Next ==
    \/ create_token
    \/ \E r \in Holders :
          \/ \E t \in TokenIds : UseLoad(r, t)
          \/ UseValidate(r)
          \/ UseLog(r)
          \/ LogCount(r)
          \/ LogSave(r, TRUE)

Spec == Init /\ [][Next]_vars

\* Requests using tokens one after the other.
SeqNext ==
    \/ create_token
    \/ \E r \in Holders :
          /\ Sole(r)
          /\ \/ \E t \in TokenIds : UseLoad(r, t)
             \/ UseValidate(r)
             \/ UseAgain(r)
             \/ UseLog(r)
             \/ LogCount(r)
             \/ LogSave(r, FALSE)

SeqSpec == Init /\ [][SeqNext]_vars

\* One caller building, changing, cleaning and saving token objects; the table
\* holds the one row the caller inserted.
EntityHolders == {1}

EntityNext ==
    \E h \in EntityHolders :
        \/ New(h)
        \/ \E t \in TokenIds : Load(h, t)
        \/ SetLoginMode(h)
        \/ SetUser(h)
        \/ SetMaxUses(h)
        \/ SetExpirationTime(h)
        \/ Clean(h)
        \/ Save(h) /\ Len(tokens') <= 1

EntitySpec == Init /\ [][EntityNext]_vars

\* One caller building, changing and saving token objects while time passes.
ClockNext ==
    \/ Tick
    \/ \E h \in EntityHolders :
          \/ NewDefault(h)
          \/ \E t \in TokenIds : Load(h, t)
          \/ SetLoginMode(h)
          \/ SetUser(h)
          \/ SetExpirationTime(h)
          \/ SetIssuedAt(h)
          \/ Save(h) /\ Len(tokens') <= 1

ClockSpec == Init /\ [][ClockNext]_vars

\* One caller saving and logging objects of the one token stored, whose
\* issued_at it may have changed, while time passes.
ClockLog(h) ==
    /\ pc[h] = "idle"
    /\ LogInsert(h, NoError)

IssuedNext ==
    \/ Tick
    \/ create_token /\ tokens = <<>>
    \/ \E h \in EntityHolders :
          \/ \E t \in TokenIds : Load(h, t)
          \/ SetIssuedAt(h)
          \/ Save(h)
          \/ ClockLog(h)
          \/ LogCount(h)
          \/ LogSave(h, FALSE)

IssuedSpec == Init /\ [][IssuedNext]_vars

\* One caller recording uses of token objects it has changed in memory; the
\* table holds one row.
EntityLog(h) ==
    /\ pc[h] = "idle"
    /\ \E error \in {NoError, "MaxUseError"} : LogInsert(h, error)

LedgerNext ==
    \/ create_token /\ tokens = <<>>
    \/ \E h \in EntityHolders :
          \/ New(h)
          \/ \E t \in TokenIds : Load(h, t)
          \/ SetUser(h)
          \/ EntityLog(h)
          \/ LogCount(h)
          \/ LogSave(h, FALSE)

LedgerSpec == Init /\ [][LedgerNext]_vars

\* Callers that hold objects, fresh or stale, of the one token stored, and call
\* validate_max_uses() and log() on them directly; no log() call starts while
\* another is under way.
Validate(h) ==
    /\ pc[h] = "idle"
    /\ validate_max_uses(h)
    /\ UNCHANGED <<pc, passes, overlap>>

LogAlone(h) ==
    \A q \in Holders \ {h} : pc[q] \notin {"log_inserted", "log_counted"}

\* Two callers: one holds its object while the other's log() runs to its end.
SerialHolders == {1, 2}

SerialNext ==
    \/ create_token /\ tokens = <<>>
    \/ \E h \in SerialHolders :
          \/ \E t \in TokenIds : Load(h, t)
          \/ Validate(h)
          \/ LogAlone(h) /\ EntityLog(h)
          \/ LogCount(h)
          \/ LogSave(h, FALSE)

SerialSpec == Init /\ [][SerialNext]_vars

\* One client whose requests are authenticated with objects of the one token
\* stored, as loaded or as the caller has changed and saved them.
AuthNext ==
    \/ create_token /\ tokens = <<>>
    \/ \E h \in EntityHolders :
        \/ \E t \in TokenIds : Load(h, t)
        \/ SetLoginMode(h)
        \/ SetUser(h)
        \/ SetMaxUses(h)
        \/ SetExpirationTime(h)
        \/ Save(h) /\ Len(tokens') <= 1
        \/ Login(h)
        \/ BeginRequest(h)
        \/ Authenticate(h)
        \/ EndRequest(h)

AuthSpec == Init /\ [][AuthNext]_vars

\* Concurrent requests of two clients, each running the whole protocol:
\* load, validate_max_uses(), authenticate(), log().
RequestHolders == {1, 2}

RequestNext ==
    \/ create_token /\ tokens = <<>>
    \/ \E r \in RequestHolders :
          \/ Login(r)
          \/ BeginRequest(r)
          \/ \E t \in TokenIds : RequestLoad(r, t)
          \/ UseValidate(r)
          \/ RequestAuthenticate(r)
          \/ RequestLog(r)
          \/ LogCount(r)
          \/ LogSave(r, TRUE)
          \/ EndRequest(r)

RequestSpec == Init /\ [][RequestNext]_vars

\* The steps of a request through the middleware and the decorator, once it
\* has arrived.
WebClients == {2}

ClientStep(h) ==
    \/ Middleware(h)
    \/ Decorator(h)
    \/ WebValidate(h)
    \/ RequestAuthenticate(h)
    \/ View(h)
    \/ ProcessException(h)
    \/ WebLog(h)
    \/ LogCount(h)
    \/ LogSave(h, TRUE)
    \/ WebEnd(h)

\* A caller who stores a token, changes its scope and sends out its token
\* string, and a client who follows the link.
ScopeNext ==
    \/ create_token /\ tokens = <<>>
    \/ \E h \in EntityHolders :
          \/ \E t \in TokenIds : Load(h, t)
          \/ SetScope(h)
          \/ SaveWith(h, FALSE, {})
          \/ SendJwt(h)
    \/ \E h \in WebClients : LinkRequest(h) \/ ClientStep(h)

ScopeSpec == Init /\ [][ScopeNext]_vars

\* A caller who stores a token and sends out its token string, an
\* administrator who deletes the token, and a client whose requests carry
\* the string, a forgery of it, text that is no token string, or nothing.
WebNext ==
    \/ create_token /\ tokens = <<>>
    \/ \E h \in EntityHolders :
          \/ \E t \in TokenIds : Load(h, t)
          \/ SendJwt(h)
          \/ Delete(h)
    \/ \E h \in WebClients : WebRequest(h) \/ ClientStep(h)

WebSpec == Init /\ [][WebNext]_vars

\* A caller who stores a token with a time window, sends out its token
\* string and expires the token, and a client who follows the link, while
\* time passes.
TimeNext ==
    \/ Tick
    \/ \E h \in EntityHolders :
          \/ NewWindow(h)
          \/ SaveWith(h, FALSE, {})
          \/ SendJwt(h)
          \/ expire(h)
    \/ \E h \in WebClients : LinkRequest(h) \/ ClientStep(h)

TimeSpec == Init /\ [][TimeNext]_vars

\* A caller who builds token objects field by field, from new ones and from
\* the stored one, and reads their claims and token strings, while time
\* passes.
ClaimsNext ==
    \/ create_token /\ tokens = <<>>
    \/ Tick
    \/ \E h \in EntityHolders :
          \/ NewDefault(h)
          \/ \E t \in TokenIds : Load(h, t)
          \/ SetLoginMode(h)
          \/ SetUser(h)
          \/ SetScope(h)
          \/ SetExpirationTime(h)
          \/ SetNotBeforeTime(h)
          \/ SetData(h)

ClaimsSpec == Init /\ [][ClaimsNext]_vars

\* One caller recording uses of objects of the one token stored, which it may
\* have changed in memory, while time passes.
AppendNext ==
    \/ Tick
    \/ create_token /\ tokens = <<>>
    \/ \E h \in EntityHolders :
          \/ \E t \in TokenIds : Load(h, t)
          \/ SetUser(h)
          \/ EntityLog(h)
          \/ LogCount(h)
          \/ LogSave(h, FALSE)

AppendSpec == Init /\ [][AppendNext]_vars

\* One caller recording uses of the token stored by requests that arrive
\* with any META.
MetaNext ==
    \/ create_token /\ tokens = <<>>
    \/ \E h \in EntityHolders :
          \/ \E t \in TokenIds : Load(h, t)
          \/ MetaRequest(h)
          \/ ClockLog(h)
          \/ LogCount(h)
          \/ LogSave(h, FALSE)

MetaSpec == Init /\ [][MetaNext]_vars

\* One client whose requests are handed to the resolver, through
\* authenticate() and to its two branches directly, with objects of the one
\* token stored, as loaded or with another login mode or user.
ResolverNext ==
    \/ create_token /\ tokens = <<>>
    \/ \E h \in EntityHolders :
          \/ \E t \in TokenIds : Load(h, t)
          \/ SetLoginMode(h)
          \/ SetUser(h)
          \/ Login(h)
          \/ BeginRequest(h)
          \/ Authenticate(h)
          \/ AuthIsAnonymous(h)
          \/ AuthIsAuthenticated(h)
          \/ EndRequest(h)

ResolverSpec == Init /\ [][ResolverNext]_vars

\* A caller who changes the scope of the token stored, and a request that
\* has loaded the token and records its use.
FrameNext ==
    \/ create_token /\ tokens = <<>>
    \/ \E h \in EntityHolders :
          \/ \E t \in TokenIds : Load(h, t)
          \/ SetScope(h)
          \/ SaveWith(h, FALSE, {})
    \/ \E h \in WebClients :
          \/ \E t \in TokenIds : Load(h, t)
          \/ ClockLog(h)
          \/ LogCount(h)
          \/ LogSave(h, FALSE)

FrameSpec == Init /\ [][FrameNext]_vars

\* Two clients whose requests use the one token stored, one after the other
\* or at the same time, often enough for one of them to be overtaken twice.
RaceNext ==
    \/ create_token /\ tokens = <<>>
    \/ \E r \in RequestHolders :
          \/ \E t \in TokenIds : UseLoadUpTo(r, t, MaxRaceLogs)
          \/ UseValidate(r)
          \/ UseLogUpTo(r, MaxRaceLogs)
          \/ LogCount(r)
          \/ LogSave(r, TRUE)

RaceSpec == Init /\ [][RaceNext]_vars


\* ------------------------------------------------------------ the claims

\* The committed rows of a table.
CommittedRows(rows) == {r \in rows : r.tx = Committed}

\* The committed usage records of token t that have no error record attached.
ErrorFreeLogs(t) ==
    {l \in CommittedRows(logs) :
        l.token = t /\ ~ \E e \in CommittedRows(errors) : e.log = l.id}

AllIdle == \A h \in Holders : pc[h] = "idle"

C2_ConcurrentUseLimit ==
    \A t \in TokenIds : t <= Len(tokens) => ~(passes[t] > tokens[t].max_uses)

\* C2, amended: a request passes validate_max_uses() only when the used_to_date
\* it loaded is below max_uses, and more than max_uses requests pass only when
\* one of them loaded the token while another request was using it.
C2_UseLimitUnlessOverlap ==
    /\ \A r \in Holders :
          pc[r] = "valid" => obj[r].used_to_date < obj[r].max_uses
    /\ \A t \in 1..Len(tokens) :
          passes[t] > tokens[t].max_uses => overlap[t]

\* Two overlapping requests have both passed for a token with max_uses = 1.
C2_Witness ==
    \E t \in 1..Len(tokens) :
        tokens[t].max_uses = 1 /\ passes[t] = 2 /\ overlap[t]

\* C3: after a log() call that ran alone has returned, the stored used_to_date
\* of its token is the number of the token's usage records that have no error
\* record attached.
C3_CountMatchesLedger ==
    (last.op = "log" /\ last.out = "ok") =>
        LET t == obj[last.h].id
        IN tokens[t].used_to_date = Cardinality(ErrorFreeLogs(t))

\* A second log() call on a token has returned.
C3_Witness ==
    /\ last.op = "log" /\ last.out = "ok"
    /\ Cardinality(ErrorFreeLogs(obj[last.h].id)) = 2

\* C4, as claimed: a log() call that is given an error leaves the stored
\* used_to_date of the token as it was before the call.
C4_FailedAttemptNotCounted ==
    [][\A h \in Holders :
          (pc[h] = "log_counted" /\ pc'[h] = "idle" /\ last'.out = "ok"
             /\ call[h].error # NoError)
          => tokens'[obj[h].id].used_to_date = tokens[obj[h].id].used_to_date]_vars

\* C5, as claimed: a log() call that is given an error leaves one new usage
\* record and one error record attached to it, with the error's type name.
C5_FailedAttemptRecorded ==
    [][\A h \in Holders :
          (pc[h] = "log_counted" /\ pc'[h] = "idle" /\ last'.out = "ok"
             /\ call[h].error # NoError)
          => /\ Cardinality({l \in CommittedRows(logs') : l.id = call[h].log}) = 1
             /\ Cardinality({e \in CommittedRows(errors') :
                                e.log = call[h].log
                                /\ e.error_type = call[h].error}) = 1]_vars

\* C6: a log() call that fails, at the insert of the usage record or at the
\* save of the token, leaves the stored token, the usage records and the error
\* records as they were before the call, and no step of a log() call that has
\* not returned changes what is committed.
C6_LogAtomic ==
    [][(last'.op = "log" /\ last'.out # "ok")
          => /\ tokens' = tokens
             /\ CommittedRows(logs') = CommittedRows(logs)
             /\ CommittedRows(errors') = CommittedRows(errors)
             /\ (pc'[last'.h] = "idle"
                   => \A l \in logs' \cup errors' : l.tx # last'.h)]_vars

\* A log() call has failed at the save of the token, after its usage record
\* was inserted.
C6_Witness ==
    /\ last.op = "log" /\ last.out = "ValidationError"
    /\ log_seq >= 1

\* C7, as claimed: once all the concurrent log() calls on a token have
\* committed, its stored used_to_date is the number of its usage records that
\* have no error record attached.
C7_CountAfterConcurrentLogs ==
    AllIdle =>
        \A t \in 1..Len(tokens) :
            tokens[t].used_to_date = Cardinality(ErrorFreeLogs(t))

\* C7, amended: the stored used_to_date never exceeds the number of the
\* token's usage records that have no error record attached, and once all the
\* log() calls have committed it equals that number when no request loaded
\* the token while another was using it.
C7_CountNeverAhead ==
    \A t \in 1..Len(tokens) :
        /\ tokens[t].used_to_date <= Cardinality(ErrorFreeLogs(t))
        /\ (AllIdle /\ ~overlap[t])
              => tokens[t].used_to_date = Cardinality(ErrorFreeLogs(t))

\* Two overlapping log() calls have committed and the count is behind.
C7_Witness ==
    /\ AllIdle
    /\ \E t \in 1..Len(tokens) :
          /\ overlap[t]
          /\ Cardinality(ErrorFreeLogs(t)) = 2
          /\ tokens[t].used_to_date = 1

\* C8: validate_max_uses() raises MaxUseError exactly when used_to_date >=
\* max_uses, and changes neither the token object nor anything stored.
C8_ValidateMaxUses ==
    [][last'.op = "validate_max_uses"
          => /\ last'.out \in {"ok", "MaxUseError"}
             /\ last'.out = "MaxUseError"
                   <=> obj[last'.h].used_to_date >= obj[last'.h].max_uses
             /\ obj' = obj
             /\ tokens' = tokens /\ logs' = logs /\ errors' = errors]_vars

\* validate_max_uses() has raised for a token used exactly max_uses times.
C8_Witness ==
    /\ last.op = "validate_max_uses" /\ last.out = "MaxUseError"
    /\ obj[last.h].max_uses >= 1
    /\ obj[last.h].used_to_date = obj[last.h].max_uses

\* A token that satisfies what clean() asks of a Session token.
SessionTokenValid(t) ==
    t.user # None /\ t.max_uses = 1 /\ t.expiration_time # None

\* C9, as claimed: save() of a Session token raises ValidationError unless the
\* token has a user, max_uses = 1 and, after the fill-in, an expiration_time;
\* hence every stored Session token has a user, max_uses = 1 and an
\* expiration_time.
C9_SessionTokenSaved ==
    /\ (last.op = "save" /\ obj[last.h].login_mode = LOGIN_MODE_SESSION)
          => (last.out = "ValidationError" <=> ~SessionTokenValid(obj[last.h]))
    /\ \A t \in 1..Len(tokens) :
          tokens[t].login_mode = LOGIN_MODE_SESSION => SessionTokenValid(tokens[t])

\* C10: clean() and save() of a Request token raise ValidationError when the
\* token has no user, and do not when it has one.
C10_RequestTokenNeedsUser ==
    (last.op \in {"clean", "save"}
        /\ obj[last.h].login_mode = LOGIN_MODE_REQUEST)
    => /\ last.out = "ValidationError" <=> obj[last.h].user = None
       /\ (last.op = "clean" /\ obj[last.h].user # None) => last.out = "ok"

\* save() of a Request token without a user has raised ValidationError.
C10_Witness ==
    /\ last.op = "save" /\ last.out = "ValidationError"
    /\ obj[last.h].login_mode = LOGIN_MODE_REQUEST
    /\ obj[last.h].user = None

\* C11: a save() of a Session token that succeeds leaves the expiration_time
\* the caller supplied as it was, and when none was supplied sets it, on the
\* object and on the stored row, to issued_at + JWT_SESSION_TOKEN_EXPIRY.
C11_SessionExpiryFilled ==
    [][\A h \in Holders :
          (/\ last'.op = "save" /\ last'.h = h /\ last'.out = "ok"
           /\ now' = now
           /\ obj[h].login_mode = LOGIN_MODE_SESSION)
          => IF obj[h].expiration_time = None
             THEN /\ obj'[h].issued_at # None
                  /\ obj'[h].expiration_time
                        = obj'[h].issued_at + JWT_SESSION_TOKEN_EXPIRY
                  /\ tokens'[obj'[h].id].expiration_time
                        = tokens'[obj'[h].id].issued_at + JWT_SESSION_TOKEN_EXPIRY
             ELSE obj'[h].expiration_time = obj[h].expiration_time]_vars

\* A Session token issued earlier has been saved and its expiration_time was
\* filled in from its issued_at, not from the time of the save.
C11_Witness ==
    /\ last.op = "save" /\ last.out = "ok"
    /\ obj[last.h].login_mode = LOGIN_MODE_SESSION
    /\ obj[last.h].issued_at < now
    /\ obj[last.h].expiration_time = obj[last.h].issued_at + JWT_SESSION_TOKEN_EXPIRY
    /\ tokens[obj[last.h].id].expiration_time = obj[last.h].expiration_time

\* C12, as claimed: once a token is stored, no step changes its stored
\* issued_at.
C12_IssuedAtSetOnce ==
    [][\A t \in 1..Len(tokens) : tokens'[t].issued_at = tokens[t].issued_at]_vars

\* C12, amended: a token stored for the first time has an issued_at, and the
\* stored issued_at changes only in a save() or log() of an object of the
\* token that carries another issued_at: what is stored then is the object's
\* issued_at, or, when the object has none, the time of the call (NULL when
\* update_fields is given).
C12_IssuedAtFollowsObject ==
    [][/\ \A t \in (Len(tokens) + 1)..Len(tokens') : tokens'[t].issued_at # None
       /\ \A t \in 1..Len(tokens) :
             tokens'[t].issued_at # tokens[t].issued_at
             => /\ last'.op \in {"save", "log"}
                /\ obj[last'.h].id = t
                /\ IF obj[last'.h].issued_at # None
                   THEN tokens'[t].issued_at = obj[last'.h].issued_at
                   ELSE tokens'[t].issued_at \in {None, now}]_vars

\* The stored issued_at of a token has been overwritten with NULL.
C12_Witness ==
    \E t \in 1..Len(tokens) : tokens[t].issued_at = None /\ last.op = "save"

\* C13: a save() that raises ValidationError leaves the table as it was and
\* gives the object no id.
C13_InvalidNotPersisted ==
    [][(last'.op = "save" /\ last'.out = "ValidationError" /\ now' = now)
          => /\ tokens' = tokens
             /\ obj'[last'.h].id = obj[last'.h].id]_vars

\* save() of a changed object of a stored token has raised ValidationError.
C13_Witness ==
    /\ last.op = "save" /\ last.out = "ValidationError"
    /\ obj[last.h].id \in 1..Len(tokens)
    /\ tokens[obj[last.h].id].login_mode # obj[last.h].login_mode

\* C14, as claimed: the key of a ValidationError of clean() or save() is the
\* name of the field that is wrong: user for a missing user in Session and in
\* Request mode, max_uses for max_uses # 1, expiration_time for none.
C14_ErrorKeyNamesField ==
    (last.op \in {"clean", "save"} /\ last.out = "ValidationError")
    => LET t == obj[last.h]
       IN last.key = IF t.user = None THEN "user"
                     ELSE IF t.max_uses # 1 THEN "max_uses"
                     ELSE "expiration_time"

\* A step in which holder h calls authenticate().
AuthenticateStep(h) ==
    last'.op = "authenticate" /\ last'.h = h /\ now' = now

\* C15: authenticate() of a request that has a user, with a Request or Session
\* token: when request.user is the token's user nothing changes and nothing is
\* raised; otherwise InvalidAudienceError is raised and neither request.user
\* nor the session changes.
C15_AuthenticatedAudience ==
    [][\A h \in Holders :
          (/\ AuthenticateStep(h)
           /\ request_user[h] \in Principals
           /\ obj[h].login_mode \in {LOGIN_MODE_REQUEST, LOGIN_MODE_SESSION})
          => /\ last'.out = IF request_user[h] = obj[h].user
                            THEN "ok" ELSE "InvalidAudienceError"
             /\ request_user' = request_user
             /\ session' = session]_vars

\* A request of one user has been refused a token that is for another user.
C15_Witness ==
    /\ last.op = "authenticate" /\ last.out = "InvalidAudienceError"
    /\ request_user[last.h] \in Principals
    /\ obj[last.h].user \in Users
    /\ obj[last.h].user # request_user[last.h]
    /\ session[last.h] = request_user[last.h]

\* C16: authenticate() of an anonymous request with a Request token sets
\* request.user to the token's user and leaves the session as it was; and the
\* request.user of a request that arrives is the user of its session, so the
\* next request is anonymous again.
C16_RequestModeNotDurable ==
    [][\A h \in Holders :
          /\ (/\ AuthenticateStep(h)
              /\ request_user[h] = Anonymous
              /\ obj[h].login_mode = LOGIN_MODE_REQUEST)
             => /\ last'.out = "ok"
                /\ request_user'[h] = obj[h].user
                /\ session' = session
                /\ session[h] = Anonymous
          /\ (request_user[h] = NoRequest /\ request_user'[h] # NoRequest)
             => request_user'[h] = session[h]]_vars

\* An anonymous request acts as the user of a Request token, and nobody is
\* logged in to its session.
C16_Witness ==
    /\ last.op = "authenticate" /\ last.out = "ok"
    /\ obj[last.h].login_mode = LOGIN_MODE_REQUEST
    /\ obj[last.h].user \in Users
    /\ request_user[last.h] = obj[last.h].user
    /\ session[last.h] = Anonymous

\* C17, as claimed: authenticate() logs a user in to the session exactly when
\* the request is anonymous and the token's login_mode is Session, and the
\* user is then the token's user.
C17_SessionIffAnonymousSession ==
    [][\A h \in Holders :
          AuthenticateStep(h)
          => /\ session'[h] # session[h]
                <=> (/\ request_user[h] = Anonymous
                     /\ obj[h].login_mode = LOGIN_MODE_SESSION)
             /\ session'[h] # session[h] => session'[h] = obj[h].user]_vars

\* C17, amended: authenticate() logs a user in to the session exactly when the
\* request is anonymous, the token's login_mode is Session and the token has a
\* user, and the user is then the token's user; for an anonymous request and
\* a Session token without a user it raises AttributeError and changes nothing.
C17_SessionIffAnonymousSessionUser ==
    [][\A h \in Holders :
          AuthenticateStep(h)
          => /\ session'[h] # session[h]
                <=> (/\ request_user[h] = Anonymous
                     /\ obj[h].login_mode = LOGIN_MODE_SESSION
                     /\ obj[h].user # None)
             /\ session'[h] # session[h]
                => (session'[h] = obj[h].user /\ request_user'[h] = obj[h].user)
             /\ (/\ request_user[h] = Anonymous
                 /\ obj[h].login_mode = LOGIN_MODE_SESSION
                 /\ obj[h].user = None)
                => (last'.out = "AttributeError" /\ request_user' = request_user)]_vars

\* The user of a Session token has been logged in to the session of an
\* anonymous request.
C17_Witness ==
    /\ last.op = "authenticate" /\ last.out = "ok"
    /\ obj[last.h].login_mode = LOGIN_MODE_SESSION
    /\ session[last.h] \in Users
    /\ session[last.h] = obj[last.h].user
    /\ request_user[last.h] = obj[last.h].user

C19_SessionTokenBounded ==
    [][\A h \in Holders :
          (/\ AuthenticateStep(h)
           /\ session'[h] # session[h]
           /\ obj[h].id \in 1..Len(tokens)
           /\ obj[h] = tokens[obj[h].id])
          => (obj[h].max_uses = 1 /\ obj[h].expiration_time # None)]_vars

DecoratorStep(h) ==
    pc[h] = "tokened" /\ pc'[h] \in {"scope_error", "loaded"}
ViewStep(h) ==
    pc[h] \in {"authenticated", "plain"} /\ pc'[h] \in {"viewed", "view_error"}

\* C21 as stated: a request whose token string has a sub claim other than the
\* scope of the view fails with ScopeError, and one whose sub claim is the
\* scope of the view passes the scope check.
C21_SubClaimDecidesScope ==
    [][\A h \in WebClients :
          DecoratorStep(h) =>
             (pc'[h] = "scope_error" <=>
                 request_jwt[h].payload["sub"] # view_scope[h])]_vars

\* C21 as amended: the decorator fails with ScopeError exactly when the scope
\* of the stored token the request loaded differs from the scope of the view;
\* after a ScopeError the view is not executed and the response is never 200;
\* the view runs for a request with a token only when the scopes are equal,
\* and when its log() has returned a committed usage record of the token with
\* status 200 is in the ledger.
C21_StoredScopeDecides ==
    [][\A h \in WebClients :
          /\ DecoratorStep(h) =>
                (pc'[h] = "scope_error" <=> obj[h].scope # view_scope[h])
          /\ pc[h] = "scope_error" =>
                /\ ~ViewStep(h)
                /\ response'[h] # 200
          /\ (ViewStep(h) /\ obj[h] # NoObj) => obj[h].scope = view_scope[h]
          /\ (/\ pc[h] = "log_counted" /\ pc'[h] = "idle"
              /\ response[h] = 200 /\ last'.out = "ok") =>
                \E l \in logs' :
                   /\ l.id = call[h].log
                   /\ l.token = obj[h].id
                   /\ l.status_code = 200
                   /\ l.tx = Committed]_vars

\* A token string whose sub claim is the scope of the view was refused with
\* ScopeError and answered with 403, and one whose sub claim is another scope
\* has been used: the view ran and the use is in the ledger.
C21_Witness ==
    /\ \E h \in WebClients :
          /\ pc[h] = "scope_error"
          /\ response[h] = 403
          /\ request_jwt[h].payload["sub"] = view_scope[h]
    /\ \E l \in logs : l.status_code = 200 /\ l.tx = Committed

\* The step in which the middleware handles the request of client h.
MiddlewareStep(h) ==
    pc[h] = "received" /\ pc'[h] \in {"tokened", "untokened"}

\* C22: a token is never used at or after its expiration_time nor before its
\* not_before_time: the middleware hands a token to the request only while
\* the token's time window admits the current time, and a request that fails
\* the time checks of decode gets no token.
C22_UsedOnlyInsideWindow ==
    [][\A h \in WebClients :
          MiddlewareStep(h) =>
             /\ pc'[h] = "tokened" =>
                   /\ obj'[h].expiration_time = None \/ now < obj'[h].expiration_time
                   /\ obj'[h].not_before_time = None \/ obj'[h].not_before_time <= now
             /\ last'.out \in {"ExpiredSignatureError", "ImmatureSignatureError"} =>
                   obj'[h] = NoObj]_vars

\* C23: expire() leaves the token, in memory and as stored, with an
\* expiration_time that is not after the current time and is earlier than the
\* future expiry it had; and from then on a request that carries a token
\* string of the token is rejected as expired.
C23_ExpireRevokes ==
    [][/\ \A h \in EntityHolders :
             (last'.op = "expire" /\ last'.h = h /\ last'.out = "ok" /\ now' = now) =>
                /\ obj'[h].expiration_time # None
                /\ obj'[h].expiration_time <= now
                /\ tokens'[obj'[h].id].expiration_time = obj'[h].expiration_time
                /\ obj[h].expiration_time > now =>
                      obj'[h].expiration_time < obj[h].expiration_time
       /\ \A h \in WebClients :
             (/\ MiddlewareStep(h)
              /\ request_jwt[h].kind = "jwt"
              /\ "jti" \in DOMAIN request_jwt[h].payload
              /\ \E t \in 1..Len(tokens) :
                    /\ request_jwt[h].payload["jti"] = t
                    /\ tokens[t].expiration_time # None
                    /\ tokens[t].expiration_time <= now) =>
                last'.out = "ExpiredSignatureError"]_vars

\* The five fields a claim is made of when they are set, as claim names.
SetFields(t) ==
    {k \in {"jti", "aud", "exp", "iat", "nbf"} :
        CASE k = "jti" -> t.id # None
          [] k = "aud" -> t.user # None
          [] k = "exp" -> t.expiration_time # None
          [] k = "iat" -> t.issued_at # None
          [] k = "nbf" -> t.not_before_time # None}

\* C24: the claims of a token contain max, sub and mod always, and jti, aud,
\* exp, iat, nbf each exactly when id, user, expiration_time, issued_at,
\* not_before_time is set; mod is the first letter of login_mode in lower
\* case; the number of claims is 3 plus the number of those fields set.
C24_ClaimsFollowFields ==
    \A h \in Holders :
        obj[h] # NoObj =>
            LET c == claims(obj[h])
            IN /\ DOMAIN c = {"max", "sub", "mod"} \cup SetFields(obj[h])
               /\ Cardinality(DOMAIN c) = 3 + Cardinality(SetFields(obj[h]))
               /\ c["mod"] = CASE obj[h].login_mode = LOGIN_MODE_NONE -> "n"
                               [] obj[h].login_mode = LOGIN_MODE_REQUEST -> "r"
                               [] obj[h].login_mode = LOGIN_MODE_SESSION -> "s"

\* A Request token with id, user, expiry, issue time and not-before time:
\* eight claims.
C24_Witness ==
    \E h \in Holders :
        /\ obj[h] # NoObj
        /\ obj[h].login_mode = LOGIN_MODE_REQUEST
        /\ Cardinality(SetFields(obj[h])) = 5
        /\ Cardinality(DOMAIN claims(obj[h])) = 8
        /\ claims(obj[h])["mod"] = "r"

\* A step that changes the payload of holder h's token object and nothing
\* else of it.
SetDataStep(h) ==
    /\ obj[h] # NoObj
    /\ obj'[h] # NoObj
    /\ obj'[h].data # obj[h].data
    /\ obj'[h] = [obj[h] EXCEPT !.data = obj'[h].data]

\* C25: the payload (data) is never part of the signed claims: two tokens
\* that differ only in payload have the same claims and the same token
\* string, and a change of a token's payload changes neither its claims nor
\* its token string.
C25_PayloadNotInClaims ==
    [][\A h \in Holders :
          /\ obj'[h] # NoObj =>
                \A d \in Payloads :
                    LET other == [obj'[h] EXCEPT !.data = d]
                    IN /\ claims(other) = claims(obj'[h])
                       /\ jwt(other) = jwt(obj'[h])
          /\ SetDataStep(h) =>
                /\ claims(obj'[h]) = claims(obj[h])
                /\ jwt(obj'[h]) = jwt(obj[h])]_vars

\* A stored token's object whose payload the caller has just changed.
C25_Witness ==
    \E h \in Holders :
        /\ last.op = "assign" /\ last.h = h
        /\ obj[h] # NoObj
        /\ obj[h].id # None
        /\ obj[h].data = "{'foo': True}"
        /\ tokens[obj[h].id].data = "{}"

\* The time window of token t admits the minute m.
WindowAdmits(t, m) ==
    /\ t.not_before_time # None => t.not_before_time <= m
    /\ t.expiration_time # None => m < t.expiration_time

NamesNoToken(s, m, tbl) ==
    /\ s # NoJwt
    /\ \/ decode(s, m).out # "ok"
       \/ "jti" \notin DOMAIN decode(s, m).claims
       \/ decode(s, m).claims["jti"] \notin 1..Len(tbl)
       \/ tbl[decode(s, m).claims["jti"]] = NoObj

\* C27: a token string that fails decoding, or decodes to an id no longer in
\* storage, makes the request proceed with request.token None: the
\* middleware raises nothing and reports the failure to the operational log
\* once, and until the request is over no UsageRecord or ErrorRecord is
\* written and nothing more is reported.
C27_BadStringPassesUntokened ==
    [][\A h \in Holders :
          /\ (MiddlewareStep(h) /\ NamesNoToken(request_jwt[h], now, tokens)) =>
                /\ obj'[h] = NoObj
                /\ pc'[h] = "untokened"
                /\ response'[h] = None
                /\ oplog[h] = 0 /\ oplog'[h] = 1
                /\ logs' = logs /\ errors' = errors /\ log_seq' = log_seq
          /\ oplog[h] > 0 =>
                /\ obj'[h] = NoObj
                /\ logs' \subseteq logs /\ errors' \subseteq errors
                /\ log_seq' = log_seq
                /\ oplog'[h] = 1 \/ (oplog'[h] = 0 /\ last'.op = "end")]_vars

\* A request whose token string names a token deleted since: no token, one
\* report.
C27_Witness ==
    \E h \in Holders :
        /\ last.op = "middleware" /\ last.h = h
        /\ last.out = "DoesNotExist"
        /\ request_jwt[h] = sent
        /\ obj[h] = NoObj
        /\ oplog[h] = 1
        /\ pc[h] = "untokened"

\* The start of a call of token.log by client h.
LogCallStep(h) ==
    /\ last'.op = "log" /\ last'.h = h
    /\ last'.out \in {"inserted", "ValueError"}

\* C28: when a token error is raised while a request is handled, the
\* middleware answers 403; it calls token.log(request, response, error) once
\* when the request carries a token, and never when it carries none; an
\* exception that is no token error is not handled: no response, no log.
C28_TokenErrorHandled ==
    [][\A h \in Holders :
          /\ (last'.op = "process_exception" /\ last'.h = h /\ pc[h] # "unhandled") =>
                IF Raised(h) \in {"TokenNotFoundError", "ScopeError", "MaxUseError",
                                  "InvalidAudienceError"}
                THEN response'[h] = 403
                ELSE /\ response'[h] = None
                     /\ pc'[h] = "unhandled"
                     /\ logs' = logs /\ log_seq' = log_seq
          \* the token error of a request with a token: the next step is the log
          /\ (response[h] = 403 /\ obj[h] # NoObj /\ Raised(h) # NoError
                /\ pc'[h] # pc[h]) =>
                /\ LogCallStep(h)
                /\ call'[h].error = Raised(h)
                /\ \E l \in logs' \ logs :
                      l.token = obj[h].id /\ l.status_code = 403 /\ l.tx = h
                /\ response'[h] = 403
                /\ Raised(h)' = NoError
          \* a log call in a request answered 403 has the token and the error
          /\ (LogCallStep(h) /\ response[h] # 200 /\ request_user[h] # NoRequest) =>
                /\ response[h] = 403
                /\ obj[h] # NoObj
                /\ Raised(h) # NoError
          \* without a token, and after an exception left alone, nothing is logged
          /\ (request_user[h] # NoRequest /\ (obj[h] = NoObj \/ pc[h] = "unhandled")
                /\ last'.h = h) =>
                /\ logs' = logs /\ log_seq' = log_seq
                /\ pc[h] = "unhandled" => response'[h] = None]_vars

\* A request with a token answered 403 whose error row is committed.
C28_Witness ==
    \E h \in Holders :
        /\ last.op = "log" /\ last.h = h /\ last.out = "ok"
        /\ response[h] = 403
        /\ \E l \in logs : l.id = log_seq /\ l.status_code = 403 /\ l.tx = Committed

\* Steps of a call of log() by holder h on a token that has a row: the
\* insert of the usage record, and the end of the call.
LogInsertStep(h) ==
    /\ last'.op = "log" /\ last'.h = h /\ last'.out = "inserted"
    /\ pc[h] = "idle"
LogEndStep(h) ==
    /\ last'.op = "log" /\ last'.h = h
    /\ pc[h] = "log_counted" /\ pc'[h] = "idle"

\* The usage records of token t that are committed.
Ledger(rows, t) == {l \in CommittedRows(rows) : l.token = t}

\* Every step of a log() call leaves the usage records written earlier, and
\* those of other calls under way, as they are.
AppendOnly ==
    \A h \in Holders :
        (last'.op = "log" /\ last'.h = h) =>
            \A l \in logs : l.tx # h => l \in logs'

FirstEntry(cs, e) ==
    /\ e # <<>>
    /\ \A k \in 1..Len(e) : e[k] # ","
    /\ e[1] # " " /\ e[Len(e)] # " "
    /\ \E i \in 0..Len(cs), j \in 0..Len(cs) :
          /\ i + Len(e) + j <= Len(cs)
          /\ \A k \in 1..i : cs[k] = " "
          /\ SubSeq(cs, i + 1, i + Len(e)) = e
          /\ \A k \in (i + Len(e) + 1)..(i + Len(e) + j) : cs[k] = " "
          /\ i + Len(e) + j = Len(cs) \/ cs[i + Len(e) + j + 1] = ","

\* The entries a header of the model can hold.
Entries == UNION {[1..n -> HeaderChars] : n \in 1..MaxHeaderLen}

C31_PersistedCountsInRange ==
    \A t \in 1..Len(tokens) :
        tokens[t] # NoObj =>
            /\ tokens[t].max_uses >= 1
            /\ tokens[t].used_to_date >= 0

C33_WrongBranchIsAudienceError ==
    [][\A h \in Holders :
          /\ (/\ last'.op = "_auth_is_anonymous" /\ last'.h = h /\ pc' = pc
              /\ request_user[h] # Anonymous) =>
                /\ last'.out = "InvalidAudienceError"
                /\ request_user'[h] = request_user[h]
                /\ session'[h] = session[h]
          /\ (/\ last'.op = "_auth_is_authenticated" /\ last'.h = h /\ pc' = pc
              /\ request_user[h] = Anonymous) =>
                /\ last'.out = "InvalidAudienceError"
                /\ request_user'[h] = request_user[h]
                /\ session'[h] = session[h]]_vars

\* C34, as claimed: authenticate() of a request that is anonymous or has a
\* user either returns the request or raises InvalidAudienceError, for every
\* identity state and login mode.
C34_AuthenticateTotal ==
    [][\A h \in Holders :
          (AuthenticateStep(h) /\ request_user[h] # None) =>
              last'.out \in {"ok", "InvalidAudienceError"}]_vars

\* C34, amended: entered through authenticate(), the assertions of the two
\* branches hold, and authenticate() returns the request or raises
\* InvalidAudienceError, except that for an anonymous request and a Session
\* token without a user it fails with AttributeError.
C34_AuthenticateTotalButUserless ==
    [][\A h \in Holders :
          (AuthenticateStep(h) /\ request_user[h] # None) =>
              /\ last'.out # "AssertionError"
              /\ IF /\ request_user[h] = Anonymous
                    /\ obj[h].login_mode = LOGIN_MODE_SESSION
                    /\ obj[h].user = None
                 THEN last'.out = "AttributeError"
                 ELSE last'.out \in {"ok", "InvalidAudienceError"}]_vars

\* authenticate() has refused a request that has a user, with a token for
\* another user: the branch for authenticated requests was entered.
C34_Witness ==
    \E h \in Holders :
        /\ last.op = "authenticate" /\ last.h = h
        /\ last.out = "InvalidAudienceError"
        /\ request_user[h] \in Principals
        /\ obj[h].login_mode = LOGIN_MODE_SESSION
        /\ obj[h].user # request_user[h]

\* C35: log() changes only used_to_date on the persisted token: every other
\* persisted field has after log() the value it had in storage immediately
\* before, also when another actor changed the stored row after this request
\* loaded the token.
C35_LogWritesOnlyUseCount ==
    [][\A h \in Holders :
          (LogEndStep(h) /\ last'.out = "ok") =>
              tokens'[obj[h].id]
                = [tokens[obj[h].id] EXCEPT
                      !.used_to_date = tokens'[obj[h].id].used_to_date]]_vars

\* C36, as claimed: as long as no usage record is deleted, a token's stored
\* used_to_date never decreases, across any sequence and any interleaving
\* of log() calls on the token.
C36_CountNeverDecreases ==
    [][\A t \in 1..Len(tokens) :
          tokens'[t].used_to_date >= tokens[t].used_to_date]_vars

\* C36, amended: as long as no usage record is deleted, a token's stored
\* used_to_date never decreases across log() calls of requests none of
\* which loaded the token while another was using it; each call counts more
\* than is stored when it counts, and stores that count.
C36_CountNeverDecreasesUnlessOverlap ==
    [][/\ \A t \in 1..Len(tokens) :
             ~overlap'[t] => tokens'[t].used_to_date >= tokens[t].used_to_date
       /\ \A h \in Holders :
             /\ (pc[h] = "log_inserted" /\ pc'[h] = "log_counted") =>
                   obj'[h].used_to_date > tokens[obj[h].id].used_to_date
             /\ (LogEndStep(h) /\ last'.out = "ok") =>
                   tokens'[obj[h].id].used_to_date = obj[h].used_to_date]_vars

\* Three uses of the token, one after the other: the stored count has gone
\* up to three.
C36_Witness ==
    /\ AllIdle
    /\ \E t \in 1..Len(tokens) :
          /\ ~overlap[t]
          /\ tokens[t].used_to_date = 3
          /\ Cardinality(Ledger(logs, t)) = 3

====
